---- MODULE Spec2Model ----
(***************************************************************************)
(* The OCI image store (lib/oci/manifest.go and its legacy refs/ variant)  *)
(* and the layer lifecycle (lib/layer.go, util/oci.go) of the build tool.  *)
(* Build-step processes share one image directory on disk; each step loads *)
(* the image, optionally rehashes or rotates the top layer, and persists   *)
(* through the five-step save protocol.                                    *)
(***************************************************************************)
EXTENDS Integers, Sequences, FiniteSets, TLC

(* ------------------------------ bounds -------------------------------- *)
\* build-step processes sharing the image directory
Procs == {1, 2}
\* build steps (process invocations) started in one behaviour
MaxSteps == 2
\* distinct working-tree contents a layer can be collected from
MaxTree == 2
\* layers of the image the build starts from, when it is not an empty image
MaxInitLayers == 2
\* I/O failures (disk full, permission, ...) injected in one behaviour
MaxFaults == 1
\* RehashTopLayer calls one rehash build step makes before it releases the lock
MaxRehash == 2
\* layer digests in the list handed to one OCIExtractLayers call
MaxList == 2
\* OCIExtractLayers calls in one behaviour
MaxExtract == 2

(* --------------------------- program constants ------------------------ *)
OCISchemaVersion == 2
AnnotationRefName == "org.opencontainers.image.ref.name"
MediaTypeImageManifest == "application/vnd.oci.image.manifest.v1+json"
MediaTypeImageLayerGzip == "application/vnd.oci.image.layer.v1.tar+gzip"
MediaTypeImageLayer == "application/vnd.oci.image.layer.v1.tar"
MediaTypeOther == "application/vnd.oci.image.index.v1+json"
BuildModeOCI == "oci"
BuildModeAppC == "appc"

NoProc == 0
Trees == 1..MaxTree
EmptyTree == 0

(* ------------------------- digests and blobs -------------------------- *)
\* digest.NewDigestFromHex(algo, hex): the content hash is injective, so the
\* hex part is represented by the content it was computed from.
NewDigestFromHex(algo, content) == [algorithm |-> algo, hex |-> content]
\* the zero digest.Digest ("")
EmptyDigest == [algorithm |-> "", hex |-> [kind |-> "none"]]

\* json.Marshal of the image configuration: rootfs.type and rootfs.diff_ids
MarshalConfig(config) ==
    [kind |-> "config", rootfs |-> [type |-> "layers", diff_ids |-> config.diffIDs]]
\* json.Marshal of the manifest: schema version, config descriptor, layers
MarshalManifest(manifest) ==
    [kind |-> "manifest", schemaVersion |-> OCISchemaVersion,
     config |-> manifest.config, layers |-> manifest.layers]
\* json.Unmarshal into ociImage.Image
UnmarshalConfig(blob) == [diffIDs |-> blob.rootfs.diff_ids]
\* json.Unmarshal into ociImage.Manifest
UnmarshalManifest(blob) == [config |-> blob.config, layers |-> blob.layers]

\* serialized size of a blob (a function of its content)
BlobSize(blob) ==
    IF blob.kind = "config" THEN 100 + Len(blob.rootfs.diff_ids)
    ELSE IF blob.kind = "manifest" THEN 200 + Len(blob.layers)
    ELSE 0

\* util.MarshalHashAndWrite: (algorithm, hex, size) of the blob it stores
MarshalHashAndWrite(blob) ==
    [algo |-> "sha256", hash |-> blob, size |-> BlobSize(blob)]

\* the layer blob collected from a working tree with content t, and its
\* diff-ID (digest of the uncompressed tar stream)
LayerBlob(t) == [kind |-> "layer", gzip |-> t]
LayerDigest(t) == NewDigestFromHex("sha256", LayerBlob(t))
DiffID(t) == NewDigestFromHex("sha256", [kind |-> "tar", tree |-> t])
LayerSize(t) == 512 * (t + 1)

\* the descriptor of a layer of the image the build starts from
InitLayerDescriptor(t) ==
    [mediaType |-> MediaTypeImageLayerGzip, digest |-> LayerDigest(t), size |-> LayerSize(t)]

\* the zero Image struct LoadImage starts from
ZeroImage ==
    [refName  |-> "",
     config   |-> [diffIDs |-> <<>>],
     manifest |-> [config |-> [digest |-> EmptyDigest, size |-> 0], layers |-> <<>>],
     manDesc  |-> [mediaType |-> "", digest |-> EmptyDigest, size |-> 0, ref |-> "",
                   platform |-> ""]]

\* part_000:46-50 starts from refName "latest"; manifest.go:54-56 from ""
NewImage(variant) ==
    IF variant = "legacy" THEN [ZeroImage EXCEPT !.refName = "latest"] ELSE ZeroImage

(* ------------------------------ state --------------------------------- *)
VARIABLES
    blobs,      \* digests d for which blobs/<d.algorithm>/<d.hex> exists
    index,      \* index.json: [exists, manifests]
    refs,       \* refs/ directory: [exists, files], files sorted by name
    markers,    \* layer digests whose expanded directory has a .dirty file
    tree,       \* content of the top layer's expanded working tree
    scratch,    \* content of the new-layer scratch directory, NoDir if absent
    lock,       \* holder of the image-directory lock, NoProc if free
    mode,       \* a.Mode of the build session
    impl,       \* pointer layout of the oci package: "index" or "legacy"
    faults,     \* I/O failures injected so far
    pc,         \* position of each build-step process
    op,         \* the build step each process runs
    steps,      \* build steps started so far
    img,        \* the in-memory Image of each process
    phase,      \* "rehash" or "new": which rehashAndStoreOCIBlob call is active
    top,        \* topLayerID local of RehashTopLayer
    err,        \* error value travelling up the current call chain
    call,       \* the last UpdateTopLayer/NewTopLayer call: arguments, pre-state, result
    sv,         \* the current save: steps that took effect, step that failed;
                \* and the saves this Image completed
    rh,         \* the RehashTopLayer calls of each build step, one record per call
    blobsDest,  \* the expanded directory blobsDest/<algorithm>/<hex> of each layer digest
    ext,        \* the OCIExtractLayers call: its list, loop position, error, the
                \* unpacks it made, whether the call before it had the same list
                \* and which digests that call unpacked
    committed   \* the states of the image the directory has held: the pointer
                \* digest, manifest and config at the start and after each save

disk == <<blobs, index, refs, markers, tree, scratch>>
vars == <<blobs, index, refs, markers, tree, scratch, lock, mode, impl, faults,
          pc, op, steps, img, phase, top, err, call, sv, rh, blobsDest, ext,
          committed>>

NoDir == -1
NoCall == [kind |-> "none", pre |-> ZeroImage, layerDigest |-> EmptyDigest,
           diffId |-> EmptyDigest, size |-> 0, old |-> EmptyDigest, result |-> "none"]
NoSave == [done |-> <<>>, failed |-> 0, count |-> 0]

\* the layer digests OCIExtractLayers is called with, and the lists of them
LayerIDs == {LayerDigest(t) : t \in Trees \cup {EmptyTree}}
LayerIDLists == UNION {[1..k -> LayerIDs] : k \in 0..MaxList}
\* no OCIExtractLayers call is running and none has run
NoExtract ==
    [pc |-> "idle", layerIDs |-> <<>>, i |-> 0, found |-> "none", err |-> "nil",
     unpacks |-> <<>>, calls |-> 0, again |-> FALSE, before |-> {}]

\* ociImage.Descriptor of a layer as UpdateTopLayer/NewTopLayer build it
\* (manifest.go:253-257, 280-285; part_000:235-239, 262-267)
LayerDescriptor(layerDigest, size) ==
    [mediaType |-> IF impl = "legacy" THEN MediaTypeImageLayer ELSE MediaTypeImageLayerGzip,
     digest |-> layerDigest, size |-> size]

(* ------------------------ the images a build starts from -------------- *)
\* tree content of the i-th layer of the starting image
InitTree(i) == ((i - 1) % MaxTree) + 1
RECURSIVE InitLayers(_)
InitLayers(n) ==
    IF n = 0 THEN <<>>
    ELSE Append(InitLayers(n - 1), InitLayerDescriptor(InitTree(n)))
RECURSIVE InitDiffIDs(_)
InitDiffIDs(n) == IF n = 0 THEN <<>> ELSE Append(InitDiffIDs(n - 1), DiffID(InitTree(n)))
InitConfigBlob(n) == MarshalConfig([diffIDs |-> InitDiffIDs(n)])
ConfigDescriptor(blob) ==
    [digest |-> NewDigestFromHex("sha256", blob), size |-> BlobSize(blob)]
InitManifestBlob(n) ==
    MarshalManifest([config |-> ConfigDescriptor(InitConfigBlob(n)), layers |-> InitLayers(n)])
\* an index.json / refs entry for a manifest blob
ManifestEntry(blob, name) ==
    [mediaType |-> MediaTypeImageManifest, digest |-> NewDigestFromHex("sha256", blob),
     size |-> BlobSize(blob), ref |-> name, platform |-> ""]
\* an index.json entry that is not manifest-typed (a nested index)
OtherEntry ==
    [mediaType |-> MediaTypeOther,
     digest |-> NewDigestFromHex("sha256", [kind |-> "index"]),
     size |-> 7, ref |-> "other", platform |-> ""]
\* a second image held by the same directory: a manifest with a config of its own
SecondConfigBlob == MarshalConfig([diffIDs |-> <<DiffID(EmptyTree)>>])
SecondManifestBlob ==
    MarshalManifest([config |-> ConfigDescriptor(SecondConfigBlob),
                     layers |-> <<InitLayerDescriptor(EmptyTree)>>])
InitBlobs(n) ==
    {NewDigestFromHex("sha256", InitConfigBlob(n)), NewDigestFromHex("sha256", InitManifestBlob(n)),
     NewDigestFromHex("sha256", SecondConfigBlob), NewDigestFromHex("sha256", SecondManifestBlob),
     LayerDigest(EmptyTree)}
        \cup {LayerDigest(InitTree(i)) : i \in 1..n}
InitIndexes(n) ==
    LET second == ManifestEntry(SecondManifestBlob, "stable") IN
    {<<>>, <<OtherEntry>>,
     <<OtherEntry, ManifestEntry(InitManifestBlob(n), "latest")>>,
     <<ManifestEntry(InitManifestBlob(n), ""), second>>}
InitRefs(n) ==
    LET first == [name |-> "latest", desc |-> ManifestEntry(InitManifestBlob(n), "")]
        second == [name |-> "stable", desc |-> ManifestEntry(SecondManifestBlob, "")] IN
    {<<>>, <<first, second>>}

(* ------------------------------ helpers ------------------------------- *)
\* an injected I/O failure: ok = FALSE spends one of the MaxFaults failures
Fault(ok) ==
    /\ ok \/ faults < MaxFaults
    /\ faults' = IF ok THEN faults ELSE faults + 1

Set(f, p, v) == [f EXCEPT ![p] = v]

\* a RehashTopLayer call begins: the top layer digest and the dirty markers it
\* finds, the work it has done so far, what it returned
RehashEntered(p, topLayerID) ==
    rh' = [rh EXCEPT ![p] = Append(@, [top |-> topLayerID, marked |-> markers,
                                       work |-> <<>>, ret |-> "running"])]
\* the running RehashTopLayer call of p has done e
Work(p, e) ==
    IF phase[p] = "rehash" /\ Len(rh[p]) > 0
    THEN [rh EXCEPT ![p][Len(rh[p])].work = Append(@, e)]
    ELSE rh

(* ------------------------------ LoadImage ----------------------------- *)
\* the loop without its break: the last manifest-typed entry wins
FirstManifest_last(manifests) ==
    LET typed == {k \in 1..Len(manifests) : manifests[k].mediaType = MediaTypeImageManifest} IN
    IF typed = {} THEN 0 ELSE CHOOSE k \in typed : \A j \in typed : k >= j

\* manifest.go:75-84: position of the first manifest-typed entry, 0 if none
FirstManifest(manifests) ==
    LET typed == {k \in 1..Len(manifests) : manifests[k].mediaType = MediaTypeImageManifest} IN
    IF typed = {} THEN 0 ELSE CHOOSE k \in typed : \A j \in typed : k <= j

\* manifest.go:75-84: manDesc and refName after the loop over index.Manifests
ResolveIndex(i, manifests) ==
    LET k == FirstManifest(manifests) IN
    IF k = 0 THEN i
    ELSE [i EXCEPT !.manDesc = manifests[k],
                   !.refName = IF manifests[k].ref # "" THEN manifests[k].ref ELSE i.refName]

\* part_000:55-82: the first file of refs/ names the ref and holds the descriptor
ResolveRefs(i, files) ==
    [i EXCEPT !.refName = files[1].name, !.manDesc = files[1].desc]

\* manifest.go:60-87 / part_000:55-82: read the pointer
LoadPointer(p) ==
    /\ pc[p] = "ld_pointer"
    /\ IF impl = "index"
       THEN IF ~index.exists
            THEN /\ pc' = Set(pc, p, "exit") /\ err' = Set(err, p, "open index.json")
                 /\ UNCHANGED img
            ELSE LET i == ResolveIndex(img[p], index.manifests) IN
                 IF i.manDesc.digest = EmptyDigest
                 THEN /\ pc' = Set(pc, p, "exit")
                      /\ err' = Set(err, p, "no manifests found in image")
                      /\ UNCHANGED img
                 ELSE /\ pc' = Set(pc, p, "ld_manifest") /\ img' = Set(img, p, i)
                      /\ UNCHANGED err
       ELSE IF ~refs.exists
            THEN /\ pc' = Set(pc, p, "exit") /\ err' = Set(err, p, "read refs")
                 /\ UNCHANGED img
            ELSE IF Len(refs.files) = 0
            THEN /\ pc' = Set(pc, p, "exit") /\ err' = Set(err, p, "no refs found in image")
                 /\ UNCHANGED img
            ELSE /\ pc' = Set(pc, p, "ld_manifest")
                 /\ img' = Set(img, p, ResolveRefs(img[p], refs.files))
                 /\ UNCHANGED err
    /\ UNCHANGED <<disk, lock, mode, impl, steps, faults, op, phase, top, call, sv, rh, blobsDest, ext, committed>>

\* LoadImage reading the pointer a second time to find the manifest blob
LoadManifest_rereadPointer(p) ==
    /\ pc[p] = "ld_manifest"
    /\ LET now == IF impl = "index"
                  THEN ResolveIndex(img[p], index.manifests)
                  ELSE IF Len(refs.files) > 0 THEN ResolveRefs(img[p], refs.files)
                  ELSE img[p]
           d == now.manDesc.digest IN
       IF d \notin blobs
       THEN /\ pc' = Set(pc, p, "exit") /\ err' = Set(err, p, "open manifest blob")
            /\ UNCHANGED img
       ELSE IF d.hex.kind # "manifest"
       THEN /\ pc' = Set(pc, p, "exit") /\ err' = Set(err, p, "unmarshal manifest")
            /\ UNCHANGED img
       ELSE /\ pc' = Set(pc, p, "ld_config")
            /\ img' = [img EXCEPT ![p].manifest = UnmarshalManifest(d.hex)]
            /\ UNCHANGED err
    /\ UNCHANGED <<disk, lock, mode, impl, steps, faults, op, phase, top, call, sv, rh, blobsDest, ext, committed>>

\* manifest.go:89-104: open, read and unmarshal the manifest blob
LoadManifest(p) ==
    /\ pc[p] = "ld_manifest"
    /\ LET d == img[p].manDesc.digest IN
       IF d \notin blobs
       THEN /\ pc' = Set(pc, p, "exit") /\ err' = Set(err, p, "open manifest blob")
            /\ UNCHANGED img
       ELSE IF d.hex.kind # "manifest"
       THEN /\ pc' = Set(pc, p, "exit") /\ err' = Set(err, p, "unmarshal manifest")
            /\ UNCHANGED img
       ELSE /\ pc' = Set(pc, p, "ld_config")
            /\ img' = [img EXCEPT ![p].manifest = UnmarshalManifest(d.hex)]
            /\ UNCHANGED err
    /\ UNCHANGED <<disk, lock, mode, impl, steps, faults, op, phase, top, call, sv, rh, blobsDest, ext, committed>>

\* manifest.go:104-121: open, read and unmarshal the config blob
LoadConfig(p) ==
    /\ pc[p] = "ld_config"
    /\ LET d == img[p].manifest.config.digest IN
       IF d \notin blobs
       THEN /\ pc' = Set(pc, p, "exit") /\ err' = Set(err, p, "open config blob")
            /\ UNCHANGED img
       ELSE IF d.hex.kind # "config"
       THEN /\ pc' = Set(pc, p, "exit") /\ err' = Set(err, p, "unmarshal config")
            /\ UNCHANGED img
       ELSE /\ pc' = Set(pc, p, "lock")
            /\ img' = [img EXCEPT ![p].config = UnmarshalConfig(d.hex)]
            /\ UNCHANGED err
    /\ UNCHANGED <<disk, lock, mode, impl, steps, faults, op, phase, top, call, sv, rh, blobsDest, ext, committed>>

\* LoadImage as a function of the directory: [ok, image]
LoadImage ==
    LET i1 == IF impl = "index"
              THEN IF index.exists THEN ResolveIndex(NewImage(impl), index.manifests)
                   ELSE NewImage(impl)
              ELSE IF refs.exists /\ Len(refs.files) > 0
                   THEN ResolveRefs(NewImage(impl), refs.files)
                   ELSE NewImage(impl)
        md == i1.manDesc.digest
        okM == md # EmptyDigest /\ md \in blobs /\ md.hex.kind = "manifest"
        i2 == IF okM THEN [i1 EXCEPT !.manifest = UnmarshalManifest(md.hex)] ELSE i1
        cd == i2.manifest.config.digest
        okC == okM /\ cd \in blobs /\ cd.hex.kind = "config"
        i3 == IF okC THEN [i2 EXCEPT !.config = UnmarshalConfig(cd.hex)] ELSE i2
    IN [ok |-> okC, image |-> i3]

\* what a load returns: the pointer's digest, the manifest and the config
Triple(i) == <<i.manDesc.digest, i.manifest, i.config>>

(* ---------------------------- initial states -------------------------- *)
\* the image directory holding the starting image of n layers, in one layout
InitImage(n) ==
    /\ blobs = InitBlobs(n)
    /\ \/ /\ index \in {[exists |-> TRUE, manifests |-> ms] : ms \in InitIndexes(n)}
          /\ refs = [exists |-> FALSE, files |-> <<>>]
       \/ /\ index = [exists |-> FALSE, manifests |-> <<>>]
          /\ refs \in {[exists |-> TRUE, files |-> fs] : fs \in InitRefs(n)}

\* no build step is running
InitProcs ==
    /\ lock = NoProc
    /\ faults = 0
    /\ pc = [p \in Procs |-> "idle"]
    /\ op = [p \in Procs |-> "none"]
    /\ steps = 0
    /\ img = [p \in Procs |-> ZeroImage]
    /\ phase = [p \in Procs |-> "none"]
    /\ top = [p \in Procs |-> EmptyDigest]
    /\ err = [p \in Procs |-> "nil"]
    /\ call = [p \in Procs |-> NoCall]
    /\ sv = [p \in Procs |-> NoSave]
    /\ rh = [p \in Procs |-> <<>>]

\* the state the directory holds at the start, if it holds one
InitCommitted ==
    committed = IF LoadImage.ok THEN {Triple(LoadImage.image)} ELSE {}

\* nothing has been extracted
InitExtract ==
    /\ blobsDest = [d \in LayerIDs |-> "none"]
    /\ ext = NoExtract

Init ==
    /\ impl \in {"index", "legacy"}
    /\ mode \in {BuildModeOCI, BuildModeAppC}
    /\ \E n \in {0, MaxInitLayers} :
          /\ InitImage(n)
          /\ tree = IF n = 0 THEN EmptyTree ELSE InitTree(n)
    /\ markers = {}
    /\ scratch = NoDir
    /\ InitProcs
    /\ InitExtract
    /\ InitCommitted

\* the same directories, found Clean or in the middle of a build: an earlier
\* step wrote to the working tree of the top layer and marked it dirty
InitLayer ==
    /\ impl \in {"index", "legacy"}
    /\ mode \in {BuildModeOCI, BuildModeAppC}
    /\ \E n \in {0, MaxInitLayers} :
          /\ InitImage(n)
          /\ \/ /\ markers = {}
                /\ tree = IF n = 0 THEN EmptyTree ELSE InitTree(n)
             \/ /\ n > 0
                /\ markers = {LayerDigest(InitTree(n))}
                /\ tree \in Trees
    /\ scratch = NoDir
    /\ InitProcs
    /\ InitExtract
    /\ InitCommitted

\* a build step starts: a fresh process invocation loads the image
Begin(p) ==
    /\ pc[p] = "idle"
    /\ steps < MaxSteps
    /\ steps' = steps + 1
    /\ img' = Set(img, p, NewImage(impl))
    /\ pc' = Set(pc, p, "ld_pointer")
    /\ UNCHANGED <<disk, lock, mode, impl, faults, op, phase, top, err, call, sv, rh, blobsDest, ext, committed>>

\* the process ends its build step (with or without an error): its memory is gone
Exit(p) ==
    /\ pc[p] = "exit"
    /\ pc' = Set(pc, p, "idle")
    /\ op' = Set(op, p, "none")
    /\ img' = Set(img, p, ZeroImage)
    /\ phase' = Set(phase, p, "none")
    /\ top' = Set(top, p, EmptyDigest)
    /\ err' = Set(err, p, "nil")
    /\ call' = Set(call, p, NoCall)
    /\ sv' = Set(sv, p, NoSave)
    /\ rh' = Set(rh, p, <<>>)
    /\ UNCHANGED <<disk, lock, mode, impl, steps, faults, blobsDest, ext, committed>>

(* ------------------- UpdateTopLayer / NewTopLayer --------------------- *)
Last(seq) == seq[Len(seq)]

\* the returned digest read from the first layer instead of the last
OldLayerDigest_first(i) ==
    IF Len(i.manifest.layers) = 0 THEN EmptyDigest ELSE i.manifest.layers[1].digest

\* manifest.go:243,259-265: the digest UpdateTopLayer returns
OldLayerDigest(i) ==
    IF Len(i.manifest.layers) = 0 THEN EmptyDigest ELSE Last(i.manifest.layers).digest

\* UpdateTopLayer appending instead of overwriting the last entries
UpdateTopLayerMem_append(i, layerDigest, diffId, size) ==
    [i EXCEPT !.config.diffIDs = Append(@, diffId),
              !.manifest.layers = Append(@, LayerDescriptor(layerDigest, size))]

\* UpdateTopLayer overwriting the first entries instead of the last
UpdateTopLayerMem_first(i, layerDigest, diffId, size) ==
    LET ids == i.config.diffIDs
        ls == i.manifest.layers
        layerDescriptor == LayerDescriptor(layerDigest, size) IN
    [i EXCEPT !.config.diffIDs =
                  IF Len(ids) = 0 THEN <<diffId>> ELSE [ids EXCEPT ![1] = diffId],
              !.manifest.layers =
                  IF Len(ls) = 0 THEN <<layerDescriptor>>
                  ELSE [ls EXCEPT ![1] = layerDescriptor]]

\* manifest.go:244-265: the in-memory effect of UpdateTopLayer
UpdateTopLayerMem(i, layerDigest, diffId, size) ==
    LET ids == i.config.diffIDs
        ls == i.manifest.layers
        layerDescriptor == LayerDescriptor(layerDigest, size) IN
    [i EXCEPT !.config.diffIDs =
                  IF Len(ids) = 0 THEN <<diffId>> ELSE [ids EXCEPT ![Len(ids)] = diffId],
              !.manifest.layers =
                  IF Len(ls) = 0 THEN <<layerDescriptor>>
                  ELSE [ls EXCEPT ![Len(ls)] = layerDescriptor]]

\* NewTopLayer overwriting the last entries instead of appending
NewTopLayerMem_overwrite(i, layerDigest, diffId, size) ==
    LET ids == i.config.diffIDs
        ls == i.manifest.layers
        layerDescriptor == LayerDescriptor(layerDigest, size) IN
    [i EXCEPT !.config.diffIDs =
                  IF Len(ids) = 0 THEN <<diffId>> ELSE [ids EXCEPT ![Len(ids)] = diffId],
              !.manifest.layers =
                  IF Len(ls) = 0 THEN <<layerDescriptor>>
                  ELSE [ls EXCEPT ![Len(ls)] = layerDescriptor]]

\* NewTopLayer with the diff-ID append left out
NewTopLayerMem_noDiffID(i, layerDigest, diffId, size) ==
    LET ls == i.manifest.layers
        layerDescriptor == LayerDescriptor(layerDigest, size) IN
    [i EXCEPT !.manifest.layers =
                  IF Len(ls) = 0 THEN <<layerDescriptor>> ELSE Append(ls, layerDescriptor)]

\* manifest.go:271-290: the in-memory effect of NewTopLayer
NewTopLayerMem(i, layerDigest, diffId, size) ==
    LET ids == i.config.diffIDs
        ls == i.manifest.layers
        layerDescriptor == LayerDescriptor(layerDigest, size) IN
    [i EXCEPT !.config.diffIDs = IF Len(ids) = 0 THEN <<diffId>> ELSE Append(ids, diffId),
              !.manifest.layers =
                  IF Len(ls) = 0 THEN <<layerDescriptor>> ELSE Append(ls, layerDescriptor)]

\* manifest.go:242-267: UpdateTopLayer up to its call of save
UpdateTopLayer(p) ==
    /\ pc[p] = "utl"
    /\ img' = Set(img, p, UpdateTopLayerMem(img[p], call[p].layerDigest, call[p].diffId,
                                            call[p].size))
    /\ call' = [call EXCEPT ![p].old = OldLayerDigest(img[p])]
    /\ sv' = [sv EXCEPT ![p].done = <<>>, ![p].failed = 0]
    /\ rh' = Work(p, "update")
    /\ pc' = Set(pc, p, "s1")
    /\ UNCHANGED <<disk, lock, mode, impl, steps, faults, op, phase, top, err, blobsDest, ext, committed>>

\* manifest.go:270-292: NewTopLayer up to its call of save
NewTopLayer(p) ==
    /\ pc[p] = "ntl"
    /\ img' = Set(img, p, NewTopLayerMem(img[p], call[p].layerDigest, call[p].diffId,
                                         call[p].size))
    /\ sv' = [sv EXCEPT ![p].done = <<>>, ![p].failed = 0]
    /\ pc' = Set(pc, p, "s1")
    /\ UNCHANGED <<disk, lock, mode, impl, steps, faults, op, phase, top, err, call, rh, blobsDest, ext, committed>>

(* -------------------------------- save -------------------------------- *)
\* a step of save took effect
Done(p, k) ==
    sv' = [sv EXCEPT ![p].done = Append(@, k),
                     ![p].count = IF k = 5 THEN @ + 1 ELSE @]
\* a step of save failed: save returns the error at once
Failed(p, k) ==
    /\ sv' = [sv EXCEPT ![p].failed = k]
    /\ pc' = Set(pc, p, "s_ret")

\* manifest.go:125-130: remove the old config blob
SaveRemoveConfig(p) ==
    /\ pc[p] = "s1"
    /\ \E ok \in BOOLEAN :
          /\ Fault(ok)
          /\ LET oldConfigHash == img[p].manifest.config.digest IN
             IF ok /\ oldConfigHash \in blobs
             THEN /\ blobs' = blobs \ {oldConfigHash}
                  /\ Done(p, 1)
                  /\ pc' = Set(pc, p, "s2")
             ELSE /\ Failed(p, 1)
                  /\ UNCHANGED blobs
    /\ UNCHANGED <<index, refs, markers, tree, scratch, lock, mode, impl, steps,
                   op, img, phase, top, err, call, rh, blobsDest, ext, committed>>

\* step 2 writing the config blob without pointing manifest.Config at it
SaveWriteConfig_staleDescriptor(p) ==
    /\ pc[p] = "s2"
    /\ \E ok \in BOOLEAN :
          /\ Fault(ok)
          /\ LET w == MarshalHashAndWrite(MarshalConfig(img[p].config)) IN
             IF ok
             THEN /\ blobs' = blobs \cup {NewDigestFromHex(w.algo, w.hash)}
                  /\ Done(p, 2)
                  /\ pc' = Set(pc, p, "s3")
             ELSE /\ Failed(p, 2)
                  /\ UNCHANGED blobs
    /\ UNCHANGED <<index, refs, markers, tree, scratch, lock, mode, impl, steps,
                   op, img, phase, top, err, call, rh, blobsDest, ext, committed>>

\* manifest.go:131-137: write the new config blob, point the manifest at it
SaveWriteConfig(p) ==
    /\ pc[p] = "s2"
    /\ \E ok \in BOOLEAN :
          /\ Fault(ok)
          /\ LET w == MarshalHashAndWrite(MarshalConfig(img[p].config)) IN
             IF ok
             THEN /\ blobs' = blobs \cup {NewDigestFromHex(w.algo, w.hash)}
                  /\ img' = [img EXCEPT ![p].manifest.config =
                                [digest |-> NewDigestFromHex(w.algo, w.hash), size |-> w.size]]
                  /\ Done(p, 2)
                  /\ pc' = Set(pc, p, "s3")
             ELSE /\ Failed(p, 2)
                  /\ UNCHANGED <<blobs, img>>
    /\ UNCHANGED <<index, refs, markers, tree, scratch, lock, mode, impl, steps,
                   op, phase, top, err, call, rh, blobsDest, ext, committed>>

\* step 3 going on to step 4 although os.Remove failed
SaveRemoveManifest_ignoreError(p) ==
    /\ pc[p] = "s3"
    /\ \E ok \in BOOLEAN :
          /\ Fault(ok)
          /\ LET oldManifestHash == img[p].manDesc.digest IN
             IF ok /\ oldManifestHash \in blobs
             THEN /\ blobs' = blobs \ {oldManifestHash}
                  /\ Done(p, 3)
             ELSE /\ sv' = [sv EXCEPT ![p].failed = 3]
                  /\ UNCHANGED blobs
    /\ pc' = Set(pc, p, "s4")
    /\ UNCHANGED <<index, refs, markers, tree, scratch, lock, mode, impl, steps,
                   op, img, phase, top, err, call, rh, blobsDest, ext, committed>>

\* step 3 removing the blob manifest.Config names instead of the one manDesc names
SaveRemoveManifest_configHash(p) ==
    /\ pc[p] = "s3"
    /\ \E ok \in BOOLEAN :
          /\ Fault(ok)
          /\ LET oldManifestHash == img[p].manifest.config.digest IN
             IF ok /\ oldManifestHash \in blobs
             THEN /\ blobs' = blobs \ {oldManifestHash}
                  /\ Done(p, 3)
                  /\ pc' = Set(pc, p, "s4")
             ELSE /\ Failed(p, 3)
                  /\ UNCHANGED blobs
    /\ UNCHANGED <<index, refs, markers, tree, scratch, lock, mode, impl, steps,
                   op, img, phase, top, err, call, rh, blobsDest, ext, committed>>

\* manifest.go:139-144: remove the old manifest blob
SaveRemoveManifest(p) ==
    /\ pc[p] = "s3"
    /\ \E ok \in BOOLEAN :
          /\ Fault(ok)
          /\ LET oldManifestHash == img[p].manDesc.digest IN
             IF ok /\ oldManifestHash \in blobs
             THEN /\ blobs' = blobs \ {oldManifestHash}
                  /\ Done(p, 3)
                  /\ pc' = Set(pc, p, "s4")
             ELSE /\ Failed(p, 3)
                  /\ UNCHANGED blobs
    /\ UNCHANGED <<index, refs, markers, tree, scratch, lock, mode, impl, steps,
                   op, img, phase, top, err, call, rh, blobsDest, ext, committed>>

\* manifest.go:145-151: write the new manifest blob, point manDesc at it
SaveWriteManifest(p) ==
    /\ pc[p] = "s4"
    /\ \E ok \in BOOLEAN :
          /\ Fault(ok)
          /\ LET w == MarshalHashAndWrite(MarshalManifest(img[p].manifest)) IN
             IF ok
             THEN /\ blobs' = blobs \cup {NewDigestFromHex(w.algo, w.hash)}
                  /\ img' = [img EXCEPT ![p].manDesc.digest = NewDigestFromHex(w.algo, w.hash),
                                        ![p].manDesc.size = w.size]
                  /\ Done(p, 4)
                  /\ pc' = Set(pc, p, IF impl = "index" THEN "s5" ELSE "s5_rm")
             ELSE /\ Failed(p, 4)
                  /\ UNCHANGED <<blobs, img>>
    /\ UNCHANGED <<index, refs, markers, tree, scratch, lock, mode, impl, steps,
                   op, phase, top, err, call, rh, blobsDest, ext, committed>>

\* save adding its descriptor to the entries index.json already holds
NewIndex_appendEntry(i) ==
    [exists |-> TRUE,
     manifests |-> Append(index.manifests,
                          [mediaType |-> MediaTypeImageManifest, digest |-> i.manDesc.digest,
                           size |-> i.manDesc.size, ref |-> i.refName,
                           platform |-> "runtime"])]

\* manifest.go:159-175: the index save writes, one descriptor
NewIndex(i) ==
    [exists |-> TRUE,
     manifests |-> <<[mediaType |-> MediaTypeImageManifest, digest |-> i.manDesc.digest,
                      size |-> i.manDesc.size, ref |-> i.refName,
                      platform |-> "runtime"]>>]

\* manifest.go:153-186: rewrite index.json
SaveWriteIndex(p) ==
    /\ pc[p] = "s5"
    /\ \E ok \in BOOLEAN :
          /\ Fault(ok)
          /\ IF ok
             THEN /\ index' = NewIndex(img[p])
                  /\ Done(p, 5)
                  /\ pc' = Set(pc, p, "s_ret")
                  /\ committed' = committed \cup {Triple(img[p])}
             ELSE /\ Failed(p, 5)
                  /\ UNCHANGED <<index, committed>>
    /\ UNCHANGED <<blobs, refs, markers, tree, scratch, lock, mode, impl, steps,
                   op, img, phase, top, err, call, rh, blobsDest, ext>>

\* part_000:147-151: remove any old refs
SaveRemoveRefs(p) ==
    /\ pc[p] = "s5_rm"
    /\ \E ok \in BOOLEAN :
          /\ Fault(ok)
          /\ IF ok
             THEN /\ refs' = [exists |-> FALSE, files |-> <<>>]
                  /\ pc' = Set(pc, p, "s5_mk")
                  /\ UNCHANGED sv
             ELSE /\ Failed(p, 5)
                  /\ UNCHANGED refs
    /\ UNCHANGED <<blobs, index, markers, tree, scratch, lock, mode, impl, steps,
                   op, img, phase, top, err, call, rh, blobsDest, ext, committed>>

\* part_000:152-155: os.Mkdir fails when the directory exists
SaveMkdirRefs(p) ==
    /\ pc[p] = "s5_mk"
    /\ \E ok \in BOOLEAN :
          /\ Fault(ok)
          /\ IF ok /\ ~refs.exists
             THEN /\ refs' = [exists |-> TRUE, files |-> <<>>]
                  /\ pc' = Set(pc, p, "s5_wr")
                  /\ UNCHANGED sv
             ELSE /\ Failed(p, 5)
                  /\ UNCHANGED refs
    /\ UNCHANGED <<blobs, index, markers, tree, scratch, lock, mode, impl, steps,
                   op, img, phase, top, err, call, rh, blobsDest, ext, committed>>

\* ioutil.WriteFile(refs/<name>): the directory listing stays sorted by name
WriteRef(files, name, desc) ==
    LET keep == SelectSeq(files, LAMBDA f : f.name # name)
        before == SelectSeq(keep, LAMBDA f : f.name = "latest" /\ name = "stable")
        after == SelectSeq(keep, LAMBDA f : ~(f.name = "latest" /\ name = "stable"))
    IN before \o <<[name |-> name, desc |-> desc]>> \o after

\* part_000:157-167: write the ref file
SaveWriteRef(p) ==
    /\ pc[p] = "s5_wr"
    /\ \E ok \in BOOLEAN :
          /\ Fault(ok)
          /\ IF ok /\ refs.exists
             THEN /\ refs' = [refs EXCEPT !.files = WriteRef(@, img[p].refName, img[p].manDesc)]
                  /\ Done(p, 5)
                  /\ pc' = Set(pc, p, "s_ret")
                  /\ committed' = committed \cup {Triple(img[p])}
             ELSE /\ Failed(p, 5)
                  /\ UNCHANGED <<refs, committed>>
    /\ UNCHANGED <<blobs, index, markers, tree, scratch, lock, mode, impl, steps,
                   op, img, phase, top, err, call, rh, blobsDest, ext>>

(* --------------------------- layer lifecycle -------------------------- *)
\* a.lock(): the exclusive, directory-scoped lock; contention is an error
Acquire(p) ==
    IF lock = NoProc
    THEN /\ lock' = p
         /\ UNCHANGED err
    ELSE /\ err' = Set(err, p, "lock contention")
         /\ UNCHANGED lock

\* NewLayer going on without the lock
NewLayerLock_noLock(p) ==
    /\ pc[p] = "lock"
    /\ op' = Set(op, p, "newlayer")
    /\ pc' = Set(pc, p, "nl_mode")
    /\ UNCHANGED <<disk, lock, mode, impl, steps, faults, img, phase, top, err, call, sv, rh, blobsDest, ext, committed>>

\* layer.go:76-78: NewLayer takes the lock before anything else
NewLayerLock(p) ==
    /\ pc[p] = "lock"
    /\ op' = Set(op, p, "newlayer")
    /\ Acquire(p)
    /\ pc' = Set(pc, p, IF lock = NoProc THEN "nl_mode" ELSE "exit")
    /\ UNCHANGED <<disk, mode, impl, steps, faults, img, phase, top, call, sv, rh, blobsDest, ext, committed>>

\* the build steps that rehash or write to the working tree run under the same lock
StepLock(p) ==
    /\ pc[p] = "lock"
    /\ \E o \in {"rehash", "modify"} :
          /\ op' = Set(op, p, o)
          /\ pc' = Set(pc, p, IF lock # NoProc THEN "exit"
                              ELSE IF o = "rehash" THEN "rh_check" ELSE "modify")
          /\ phase' = Set(phase, p, IF lock = NoProc /\ o = "rehash" THEN "rehash" ELSE phase[p])
    /\ Acquire(p)
    /\ UNCHANGED <<disk, mode, impl, steps, faults, img, top, call, sv, rh, blobsDest, ext, committed>>

\* layer.go:79-83: the deferred unlock
Unlock(p) ==
    /\ pc[p] = "unlock"
    /\ lock' = NoProc
    /\ pc' = Set(pc, p, "exit")
    /\ UNCHANGED <<disk, mode, impl, steps, faults, op, img, phase, top, err, call, sv, rh, blobsDest, ext, committed>>

\* NewLayer without its mode check
NewLayerMode_noCheck(p) ==
    /\ pc[p] = "nl_mode"
    /\ phase' = Set(phase, p, "rehash")
    /\ pc' = Set(pc, p, "rh_check")
    /\ UNCHANGED <<disk, lock, mode, impl, steps, faults, op, img, top, err, call, sv, rh, blobsDest, ext, committed>>

\* layer.go:85-89: the mode check of NewLayer, then the call of RehashTopLayer
NewLayerMode(p) ==
    /\ pc[p] = "nl_mode"
    /\ IF mode # BuildModeOCI
       THEN /\ err' = Set(err, p, "adding layers is currently only supported in OCI builds")
            /\ pc' = Set(pc, p, "unlock")
            /\ UNCHANGED phase
       ELSE /\ phase' = Set(phase, p, "rehash")
            /\ pc' = Set(pc, p, "rh_check")
            /\ UNCHANGED err
    /\ UNCHANGED <<disk, lock, mode, impl, steps, faults, op, img, top, call, sv, rh, blobsDest, ext, committed>>

\* oci.Image.GetTopLayerDigest: the digest of the last layer, "" without layers
GetTopLayerDigest(i) ==
    IF Len(i.manifest.layers) = 0 THEN EmptyDigest ELSE Last(i.manifest.layers).digest

\* RehashTopLayer without the dirty-marker test: it always rehashes
RehashCheck_alwaysRehash(p) ==
    /\ pc[p] = "rh_check"
    /\ LET topLayerID == GetTopLayerDigest(img[p]) IN
       /\ RehashEntered(p, topLayerID)
       /\ IF mode # BuildModeOCI
          THEN /\ err' = Set(err, p, "only OCIs need to rehash the top layer")
               /\ pc' = Set(pc, p, "rh_ret")
               /\ UNCHANGED top
          ELSE /\ pc' = Set(pc, p, "rh_expand")
               /\ top' = Set(top, p, topLayerID)
               /\ UNCHANGED err
    /\ UNCHANGED <<disk, lock, mode, impl, steps, faults, op, img, phase, call, sv, blobsDest, ext, committed>>

\* layer.go:36-58: mode check, top layer digest, dirty-marker test
RehashCheck(p) ==
    /\ pc[p] = "rh_check"
    /\ LET topLayerID == GetTopLayerDigest(img[p]) IN
       /\ RehashEntered(p, topLayerID)
       /\ IF mode # BuildModeOCI
          THEN /\ err' = Set(err, p, "only OCIs need to rehash the top layer")
               /\ pc' = Set(pc, p, "rh_ret")
               /\ UNCHANGED top
          ELSE IF topLayerID # EmptyDigest /\ topLayerID \notin markers
          THEN /\ err' = Set(err, p, "nil")
               /\ pc' = Set(pc, p, "rh_ret")
               /\ top' = Set(top, p, topLayerID)
          ELSE /\ pc' = Set(pc, p, "rh_expand")
               /\ top' = Set(top, p, topLayerID)
               /\ UNCHANGED err
    /\ UNCHANGED <<disk, lock, mode, impl, steps, faults, op, img, phase, call, sv, blobsDest, ext, committed>>

\* layer.go:60-63: expandTopOCILayer yields the working tree of the top layer
RehashExpand(p) ==
    /\ pc[p] = "rh_expand"
    /\ \E ok \in BOOLEAN :
          /\ Fault(ok)
          /\ IF ok
             THEN /\ pc' = Set(pc, p, "store")
                  /\ UNCHANGED err
             ELSE /\ err' = Set(err, p, "expand top layer")
                  /\ pc' = Set(pc, p, "rh_ret")
    /\ UNCHANGED <<disk, lock, mode, impl, steps, op, img, phase, top, call, sv, rh, blobsDest, ext, committed>>

\* RehashTopLayer going on to the marker removal although the store failed
StoreReturnTo_ignoreError(p) == IF phase[p] = "rehash" THEN "rh_rm" ELSE "unlock"

\* where a failed or finished rehashAndStoreOCIBlob returns to
StoreReturnTo(p) == IF phase[p] = "rehash" THEN "rh_ret" ELSE "unlock"

\* rehashAndStoreOCIBlob, first half (layer.go:64, :95): collect the working
\* tree into a layer blob, write it, then call UpdateTopLayer or NewTopLayer
\* with the blob's digest, diff-ID and size
Store(p) ==
    /\ pc[p] = "store"
    /\ rh' = Work(p, "collect")
    /\ \E ok \in BOOLEAN :
          /\ Fault(ok)
          /\ LET dir == IF phase[p] = "new" \/ top[p] = EmptyDigest THEN scratch ELSE tree
                 t == IF dir = NoDir THEN EmptyTree ELSE dir IN
             IF ok
             THEN /\ blobs' = blobs \cup {LayerDigest(t)}
                  /\ call' = Set(call, p,
                        [kind |-> IF phase[p] = "new" THEN "new" ELSE "update",
                         pre |-> img[p], layerDigest |-> LayerDigest(t),
                         diffId |-> DiffID(t), size |-> LayerSize(t),
                         old |-> EmptyDigest, result |-> "pending"])
                  /\ pc' = Set(pc, p, IF phase[p] = "new" THEN "ntl" ELSE "utl")
                  /\ UNCHANGED err
             ELSE /\ err' = Set(err, p, "write layer blob")
                  /\ pc' = Set(pc, p, StoreReturnTo(p))
                  /\ UNCHANGED <<blobs, call>>
    /\ UNCHANGED <<index, refs, markers, tree, scratch, lock, mode, impl, steps,
                   op, img, phase, top, sv, blobsDest, ext, committed>>

\* manifest.go:267, :292 and the second half of rehashAndStoreOCIBlob: save's
\* error is returned up the chain; on success the collected directory is the
\* working tree of the top layer from now on
StoreReturn(p) ==
    /\ pc[p] = "s_ret"
    /\ call' = [call EXCEPT ![p].result = IF sv[p].failed = 0 THEN "ok" ELSE "error"]
    /\ err' = Set(err, p, IF sv[p].failed = 0 THEN "nil" ELSE "save")
    /\ pc' = Set(pc, p, IF sv[p].failed = 0 /\ phase[p] = "rehash" THEN "rh_rm"
                        ELSE StoreReturnTo(p))
    /\ IF sv[p].failed = 0 /\ (phase[p] = "new" \/ top[p] = EmptyDigest)
       THEN /\ tree' = IF scratch = NoDir THEN EmptyTree ELSE scratch
            /\ scratch' = NoDir
       ELSE UNCHANGED <<tree, scratch>>
    /\ UNCHANGED <<blobs, index, refs, markers, lock, mode, impl, steps, faults,
                   op, img, phase, top, sv, rh, blobsDest, ext, committed>>

\* RehashTopLayer returning nil without removing the marker
RehashRemoveMarker_keepMarker(p) ==
    /\ pc[p] = "rh_rm"
    /\ err' = Set(err, p, "nil")
    /\ pc' = Set(pc, p, "rh_ret")
    /\ UNCHANGED <<blobs, index, refs, markers, tree, scratch, lock, mode, impl, steps,
                   faults, op, img, phase, top, call, sv, rh, blobsDest, ext, committed>>

\* layer.go:68-72: remove the dirty marker of the digest read at entry
RehashRemoveMarker(p) ==
    /\ pc[p] = "rh_rm"
    /\ \E ok \in BOOLEAN :
          /\ Fault(ok)
          /\ IF ok /\ top[p] \in markers
             THEN /\ markers' = markers \ {top[p]}
                  /\ err' = Set(err, p, "nil")
                  /\ rh' = Work(p, "unmark")
             ELSE /\ err' = Set(err, p, "could not remove dirty marker")
                  /\ UNCHANGED <<markers, rh>>
    /\ pc' = Set(pc, p, "rh_ret")
    /\ UNCHANGED <<blobs, index, refs, tree, scratch, lock, mode, impl, steps,
                   op, img, phase, top, call, sv, blobsDest, ext, committed>>

\* NewLayer returning the error of RehashTopLayer instead of dropping it
RehashReturn_returnError(p) ==
    /\ pc[p] = "rh_ret"
    /\ rh' = [rh EXCEPT ![p][Len(rh[p])].ret = err[p]]
    /\ pc' = Set(pc, p, IF op[p] = "newlayer" /\ err[p] = "nil" THEN "nl_scratch"
                        ELSE "unlock")
    /\ UNCHANGED <<disk, lock, mode, impl, steps, faults, op, img, phase, top, err, call, sv, blobsDest, ext, committed>>

\* RehashTopLayer has returned: NewLayer drops the error (layer.go:89) and
\* goes on, a rehash step hands it to its caller
RehashReturn(p) ==
    /\ pc[p] = "rh_ret"
    /\ rh' = [rh EXCEPT ![p][Len(rh[p])].ret = err[p]]
    /\ IF op[p] = "newlayer"
       THEN /\ pc' = Set(pc, p, "nl_scratch")
            /\ err' = Set(err, p, "nil")
       ELSE /\ pc' = Set(pc, p, "unlock")
            /\ UNCHANGED err
    /\ UNCHANGED <<disk, lock, mode, impl, steps, faults, op, img, phase, top, call, sv, blobsDest, ext, committed>>

\* a rehash build step calls RehashTopLayer once more before it releases the lock
RehashAgain(p) ==
    /\ pc[p] = "unlock"
    /\ op[p] = "rehash"
    /\ Len(rh[p]) < MaxRehash
    /\ pc' = Set(pc, p, "rh_check")
    /\ UNCHANGED <<disk, lock, mode, impl, steps, faults, op, img, phase, top, err, call, sv, rh, blobsDest, ext, committed>>

\* util/oci.go:50-61: the scratch directory of the new layer
OCINewExpandedLayer(dir) == IF dir = NoDir THEN EmptyTree ELSE dir

\* layer.go:91-95: set up the scratch directory, then store it as a new layer
NewLayerScratch(p) ==
    /\ pc[p] = "nl_scratch"
    /\ \E ok \in BOOLEAN :
          /\ Fault(ok)
          /\ IF ok
             THEN /\ scratch' = OCINewExpandedLayer(scratch)
                  /\ phase' = Set(phase, p, "new")
                  /\ pc' = Set(pc, p, "store")
                  /\ UNCHANGED err
             ELSE /\ err' = Set(err, p, "mkdir new-layer")
                  /\ pc' = Set(pc, p, "unlock")
                  /\ UNCHANGED <<scratch, phase>>
    /\ UNCHANGED <<blobs, index, refs, markers, tree, lock, mode, impl, steps,
                   op, img, top, call, sv, rh, blobsDest, ext, committed>>

\* layer.go:29-34: MarkLayerDirty, the markers after it ran for layer digest d
\* ("new-layer" stands for EmptyDigest: a layer never committed has no marker)
MarkLayerDirty(d) == IF d = EmptyDigest THEN markers ELSE markers \cup {d}

\* a build step writes to the working tree of the top layer and marks it dirty
Modify(p) ==
    /\ pc[p] = "modify"
    /\ LET d == GetTopLayerDigest(img[p]) IN
       \E t \in Trees :
          /\ IF d = EmptyDigest
             THEN scratch' = t /\ UNCHANGED tree
             ELSE tree' = t /\ UNCHANGED scratch
          /\ markers' = MarkLayerDirty(d)
    /\ pc' = Set(pc, p, "unlock")
    /\ UNCHANGED <<blobs, index, refs, lock, mode, impl, steps, faults,
                   op, img, phase, top, err, call, sv, rh, blobsDest, ext, committed>>

(* -------------------------- layer extraction -------------------------- *)
\* util/oci.go:24: OCIExtractLayers is called with a list of layer digests
OCIExtractLayers ==
    /\ ext.pc = "idle"
    /\ ext.calls < MaxExtract
    /\ \E ids \in LayerIDLists :
          ext' = [ext EXCEPT !.pc = "loop", !.layerIDs = ids, !.i = 1, !.found = "none",
                             !.err = "nil", !.unpacks = <<>>, !.calls = @ + 1,
                             !.again = (ext.calls > 0 /\ ids = ext.layerIDs),
                             !.before = {ext.unpacks[k].id : k \in
                                            {j \in 1..Len(ext.unpacks) : ext.unpacks[j].ok}}]
    /\ UNCHANGED <<disk, lock, mode, impl, faults, pc, op, steps, img, phase, top, err,
                   call, sv, rh, blobsDest, committed>>

\* the loop without the test for an existing destination directory
ExtractStat_noStat ==
    /\ ext.pc = "loop"
    /\ IF ext.i > Len(ext.layerIDs)
       THEN ext' = [ext EXCEPT !.pc = "ret", !.err = "nil"]
       ELSE ext' = [ext EXCEPT !.pc = "mkdir", !.found = blobsDest[ext.layerIDs[ext.i]]]
    /\ UNCHANGED <<disk, lock, mode, impl, faults, pc, op, steps, img, phase, top, err,
                   call, sv, rh, blobsDest, committed>>

\* util/oci.go:25-35, :47: the next digest of the list; when its destination
\* directory exists the loop is left (break) and the call returns nil
ExtractStat ==
    /\ ext.pc = "loop"
    /\ IF ext.i > Len(ext.layerIDs)
       THEN ext' = [ext EXCEPT !.pc = "ret", !.err = "nil"]
       ELSE LET to == ext.layerIDs[ext.i] IN
            IF blobsDest[to] # "none"
            THEN ext' = [ext EXCEPT !.pc = "ret", !.err = "nil", !.found = blobsDest[to]]
            ELSE ext' = [ext EXCEPT !.pc = "mkdir", !.found = blobsDest[to]]
    /\ UNCHANGED <<disk, lock, mode, impl, faults, pc, op, steps, img, phase, top, err,
                   call, sv, rh, blobsDest, committed>>

\* util/oci.go:37-40: os.MkdirAll(to) creates the destination directory and
\* leaves an existing one as it is
ExtractMkdirAll ==
    /\ ext.pc = "mkdir"
    /\ LET to == ext.layerIDs[ext.i] IN
       \E ok \in BOOLEAN :
          /\ Fault(ok)
          /\ IF ok
             THEN /\ blobsDest' = IF blobsDest[to] = "none"
                                  THEN [blobsDest EXCEPT ![to] = "partial"]
                                  ELSE blobsDest
                  /\ ext' = [ext EXCEPT !.pc = "unpack"]
             ELSE /\ ext' = [ext EXCEPT !.pc = "ret", !.err = "mkdir"]
                  /\ UNCHANGED blobsDest
    /\ UNCHANGED <<disk, lock, mode, impl, pc, op, steps, img, phase, top, err,
                   call, sv, rh, committed>>

\* util/oci.go:42-45 and util/files.go:91-119: ExtractImage opens the blob and
\* unpacks it into the destination directory; an unpack that fails leaves
\* the directory behind with what was unpacked so far
ExtractImage ==
    /\ ext.pc = "unpack"
    /\ LET to == ext.layerIDs[ext.i] IN
       IF to \notin blobs
       THEN /\ ext' = [ext EXCEPT !.pc = "ret", !.err = "open"]
            /\ UNCHANGED <<blobsDest, faults>>
       ELSE \E ok \in BOOLEAN :
               /\ Fault(ok)
               /\ LET u == Append(ext.unpacks, [id |-> to, found |-> ext.found, ok |-> ok]) IN
                  IF ok
                  THEN /\ blobsDest' = [blobsDest EXCEPT ![to] = "full"]
                       /\ ext' = [ext EXCEPT !.pc = "loop", !.i = @ + 1, !.unpacks = u]
                  ELSE /\ ext' = [ext EXCEPT !.pc = "ret", !.err = "extract", !.unpacks = u]
                       /\ UNCHANGED blobsDest
    /\ UNCHANGED <<disk, lock, mode, impl, pc, op, steps, img, phase, top, err,
                   call, sv, rh, committed>>

\* OCIExtractLayers returns to its caller
ExtractReturn ==
    /\ ext.pc = "ret"
    /\ ext' = [ext EXCEPT !.pc = "idle", !.i = 0, !.found = "none"]
    /\ UNCHANGED <<disk, lock, mode, impl, faults, pc, op, steps, img, phase, top, err,
                   call, sv, rh, blobsDest, committed>>

(* --------------------------- specification ---------------------------- *)
Next ==
    \E p \in Procs :
        \/ Begin(p)
        \/ LoadPointer(p)
        \/ LoadManifest(p)
        \/ LoadConfig(p)
        \/ NewLayerLock(p)
        \/ StepLock(p)
        \/ NewLayerMode(p)
        \/ RehashCheck(p)
        \/ RehashExpand(p)
        \/ Store(p)
        \/ UpdateTopLayer(p)
        \/ NewTopLayer(p)
        \/ SaveRemoveConfig(p)
        \/ SaveWriteConfig(p)
        \/ SaveRemoveManifest(p)
        \/ SaveWriteManifest(p)
        \/ SaveWriteIndex(p)
        \/ SaveRemoveRefs(p)
        \/ SaveMkdirRefs(p)
        \/ SaveWriteRef(p)
        \/ StoreReturn(p)
        \/ RehashRemoveMarker(p)
        \/ RehashReturn(p)
        \/ NewLayerScratch(p)
        \/ Modify(p)
        \/ Unlock(p)
        \/ Exit(p)

Spec == Init /\ [][Next]_vars

(* ----------------- build steps run one after another ------------------ *)
\* a build step starts when no other is running: each invocation finds the
\* directory as the previous one left it
BeginAlone(p) ==
    /\ \A q \in Procs : pc[q] = "idle"
    /\ Begin(p)

NextLayer ==
    \E p \in Procs :
        \/ BeginAlone(p)
        \/ LoadPointer(p)
        \/ LoadManifest(p)
        \/ LoadConfig(p)
        \/ NewLayerLock(p)
        \/ StepLock(p)
        \/ NewLayerMode(p)
        \/ RehashCheck(p)
        \/ RehashExpand(p)
        \/ Store(p)
        \/ UpdateTopLayer(p)
        \/ NewTopLayer(p)
        \/ SaveRemoveConfig(p)
        \/ SaveWriteConfig(p)
        \/ SaveRemoveManifest(p)
        \/ SaveWriteManifest(p)
        \/ SaveWriteIndex(p)
        \/ SaveRemoveRefs(p)
        \/ SaveMkdirRefs(p)
        \/ SaveWriteRef(p)
        \/ StoreReturn(p)
        \/ RehashRemoveMarker(p)
        \/ RehashReturn(p)
        \/ RehashAgain(p)
        \/ NewLayerScratch(p)
        \/ Modify(p)
        \/ Unlock(p)
        \/ Exit(p)

SpecLayer == InitLayer /\ [][NextLayer]_vars

(* ------------------- extraction of an image's layers ------------------ *)
NextExtract ==
    \/ OCIExtractLayers
    \/ ExtractStat
    \/ ExtractMkdirAll
    \/ ExtractImage
    \/ ExtractReturn

\* extraction reads the blobs and the expanded directories only: one pointer
\* layout and one build mode stand for all
InitOneLayout ==
    /\ Init
    /\ impl = "index"
    /\ mode = BuildModeOCI
    /\ index.exists
    /\ Len(index.manifests) = 1

SpecExtract == InitOneLayout /\ [][NextExtract]_vars

(* ------------------- a load racing with a build step ------------------ *)
\* each process runs one build step and stays with what it loaded and
\* saved: the loads and saves of the two steps interleave freely
NextRace ==
    \E p \in Procs :
        \/ Begin(p)
        \/ LoadPointer(p)
        \/ LoadManifest(p)
        \/ LoadConfig(p)
        \/ NewLayerLock(p)
        \/ StepLock(p)
        \/ NewLayerMode(p)
        \/ RehashCheck(p)
        \/ RehashExpand(p)
        \/ Store(p)
        \/ UpdateTopLayer(p)
        \/ NewTopLayer(p)
        \/ SaveRemoveConfig(p)
        \/ SaveWriteConfig(p)
        \/ SaveRemoveManifest(p)
        \/ SaveWriteManifest(p)
        \/ SaveWriteIndex(p)
        \/ SaveRemoveRefs(p)
        \/ SaveMkdirRefs(p)
        \/ SaveWriteRef(p)
        \/ StoreReturn(p)
        \/ RehashRemoveMarker(p)
        \/ RehashReturn(p)
        \/ NewLayerScratch(p)
        \/ Modify(p)
        \/ Unlock(p)

SpecRace == InitLayer /\ [][NextRace]_vars

(* ------------------------------- claims ------------------------------- *)
\* save has just returned nil to UpdateTopLayer/NewTopLayer of process p
SaveSucceeded(p) == pc[p] = "s_ret" /\ sv[p].failed = 0

\* C1: after every successful save the number of config diff-IDs equals the
\* number of manifest layer descriptors, in memory and in the config and
\* manifest blobs the save has just written.
C1_CountsEqualAfterSave ==
    \A p \in Procs :
        SaveSucceeded(p) =>
            LET configBlob == img[p].manifest.config.digest.hex
                manifestBlob == img[p].manDesc.digest.hex IN
            /\ Len(img[p].config.diffIDs) = Len(img[p].manifest.layers)
            /\ img[p].manifest.config.digest \in blobs
            /\ img[p].manDesc.digest \in blobs
            /\ configBlob.kind = "config"
            /\ manifestBlob.kind = "manifest"
            /\ Len(configBlob.rootfs.diff_ids) = Len(manifestBlob.layers)
            /\ Len(manifestBlob.layers) = Len(img[p].manifest.layers)

\* a NewTopLayer on an image that had layers was saved
C1_Witness ==
    \E p \in Procs :
        /\ SaveSucceeded(p)
        /\ call[p].kind = "new"
        /\ Len(call[p].pre.manifest.layers) >= 1
        /\ Len(img[p].manifest.layers) = Len(call[p].pre.manifest.layers) + 1

\* C2: after every successful save the blobs named by the pointer, by
\* manifest.config and by every manifest.layers[i] exist under blobs/.
C2_ReferencedBlobsExist ==
    \A p \in Procs :
        SaveSucceeded(p) =>
            /\ img[p].manDesc.digest \in blobs
            /\ img[p].manifest.config.digest \in blobs
            /\ \A k \in 1..Len(img[p].manifest.layers) :
                  img[p].manifest.layers[k].digest \in blobs

\* an UpdateTopLayer that replaced the top layer of a two-layer image was saved
C2_Witness ==
    \E p \in Procs :
        /\ SaveSucceeded(p)
        /\ call[p].kind = "update"
        /\ Len(img[p].manifest.layers) >= 2
        /\ call[p].old # call[p].layerDigest

\* C3: after a successful save a fresh load of the directory succeeds and
\* returns the manifest, config and ref name the saving Image holds in memory,
\* also when that Image has saved before.
C3_LoadAfterSaveRoundTrip ==
    \A p \in Procs :
        SaveSucceeded(p) =>
            /\ LoadImage.ok
            /\ LoadImage.image.manifest = img[p].manifest
            /\ LoadImage.image.config = img[p].config
            /\ LoadImage.image.refName = img[p].refName

\* the second save of one Image (a rehash, then the new layer) has succeeded
C3_Witness ==
    \E p \in Procs :
        /\ SaveSucceeded(p)
        /\ sv[p].count = 2
        /\ img[p].refName = "latest"
        /\ LoadImage.image.manifest = img[p].manifest

\* positions of a build step between taking the lock and releasing it
LockedPcs ==
    {"nl_mode", "rh_check", "rh_expand", "store", "utl", "ntl", "s1", "s2", "s3", "s4",
     "s5", "s5_rm", "s5_mk", "s5_wr", "s_ret", "rh_rm", "rh_ret", "nl_scratch", "modify",
     "unlock"}
\* positions inside the save protocol
SavePcs == {"s1", "s2", "s3", "s4", "s5", "s5_rm", "s5_mk", "s5_wr"}

\* C4: every path that reaches save (NewLayer, and RehashTopLayer through
\* UpdateTopLayer) holds the exclusive image-directory lock from before its
\* first mutation until it returns, so no two processes are inside the save
\* protocol at the same time.
C4_SaveUnderLock ==
    /\ \A p \in Procs : pc[p] \in LockedPcs => lock = p
    /\ \A p, q \in Procs : (pc[p] \in SavePcs /\ pc[q] \in SavePcs) => p = q

\* one process is inside NewLayer's save while another was refused the lock
C4_Witness ==
    \E p, q \in Procs :
        /\ p # q
        /\ pc[p] \in SavePcs
        /\ op[p] = "newlayer"
        /\ pc[q] = "exit"
        /\ err[q] = "lock contention"

\* UpdateTopLayer / NewTopLayer of process p has returned
Returned(p, kind) == call[p].kind = kind /\ call[p].result # "pending"

\* C5 as claimed: for every UpdateTopLayer call, len(manifest.layers) is the
\* same before and after the call.
C5_LayerCountUnchangedByUpdate ==
    \A p \in Procs :
        Returned(p, "update") =>
            Len(img[p].manifest.layers) = Len(call[p].pre.manifest.layers)

\* C5 amended: UpdateTopLayer leaves len(manifest.layers) unchanged on an
\* image that has a layer, and creates the first entry (length 1) on an image
\* that has none; it never removes an entry.
C5_LayerCountAfterUpdate ==
    \A p \in Procs :
        Returned(p, "update") =>
            Len(img[p].manifest.layers) =
                IF Len(call[p].pre.manifest.layers) = 0 THEN 1
                ELSE Len(call[p].pre.manifest.layers)

\* an UpdateTopLayer on an image with two layers has returned
C5_Witness ==
    \E p \in Procs :
        /\ Returned(p, "update")
        /\ Len(call[p].pre.manifest.layers) = 2
        /\ Last(img[p].manifest.layers).digest # Last(call[p].pre.manifest.layers).digest

\* C6: every NewTopLayer call makes len(manifest.layers) and
\* len(config.diffIDs) one larger, and the new last entries carry the given
\* layer digest, size and diff-ID.
C6_NewTopLayerAppends ==
    \A p \in Procs :
        Returned(p, "new") =>
            /\ Len(img[p].manifest.layers) = Len(call[p].pre.manifest.layers) + 1
            /\ Len(img[p].config.diffIDs) = Len(call[p].pre.config.diffIDs) + 1
            /\ Last(img[p].manifest.layers).digest = call[p].layerDigest
            /\ Last(img[p].manifest.layers).size = call[p].size
            /\ Last(img[p].config.diffIDs) = call[p].diffId

\* a NewTopLayer on an image with layers has returned
C6_Witness ==
    \E p \in Procs :
        /\ Returned(p, "new")
        /\ Len(call[p].pre.manifest.layers) >= 1
        /\ call[p].result = "ok"

\* C7: UpdateTopLayer returns the layer digest that was in the last slot
\* before the call, and the empty digest exactly when the image had no layer.
C7_UpdateReturnsOldTop ==
    \A p \in Procs :
        Returned(p, "update") =>
            LET before == call[p].pre.manifest.layers IN
            /\ Len(before) > 0 => call[p].old = before[Len(before)].digest
            /\ (call[p].old = EmptyDigest) <=> (Len(before) = 0)

\* an UpdateTopLayer replaced the top layer of a two-layer image whose layers differ
C7_Witness ==
    \E p \in Procs :
        /\ Returned(p, "update")
        /\ Len(call[p].pre.manifest.layers) = 2
        /\ call[p].pre.manifest.layers[1].digest # call[p].pre.manifest.layers[2].digest
        /\ call[p].old # EmptyDigest

\* C8: UpdateTopLayer changes no layer descriptor and no diff-ID below the
\* last position, and NewTopLayer changes no entry that existed before it.
C8_OnlyTopLayerRewritten ==
    \A p \in Procs :
        LET before == call[p].pre
            kept(n) == IF call[p].kind = "update" THEN n - 1 ELSE n IN
        (Returned(p, "update") \/ Returned(p, "new")) =>
            /\ Len(img[p].manifest.layers) >= kept(Len(before.manifest.layers))
            /\ Len(img[p].config.diffIDs) >= kept(Len(before.config.diffIDs))
            /\ \A k \in 1..kept(Len(before.manifest.layers)) :
                  img[p].manifest.layers[k] = before.manifest.layers[k]
            /\ \A k \in 1..kept(Len(before.config.diffIDs)) :
                  img[p].config.diffIDs[k] = before.config.diffIDs[k]

\* an UpdateTopLayer on a two-layer image has returned with a new top layer
C8_Witness ==
    \E p \in Procs :
        /\ Returned(p, "update")
        /\ Len(call[p].pre.manifest.layers) = 2
        /\ Last(img[p].config.diffIDs) # Last(call[p].pre.config.diffIDs)
        /\ img[p].manifest.layers[1] = call[p].pre.manifest.layers[1]

\* the steps of save in their order
SaveOrder == <<1, 2, 3, 4, 5>>

\* C9: save runs its steps in the order 1..5 and stops at the first failure:
\* the steps that took effect are exactly those before the failed one, the
\* pointer is rewritten only after steps 1-4 succeeded, and save reports an
\* error exactly when a step failed.
C9_SaveFailFastInOrder ==
    \A p \in Procs :
        /\ sv[p].done = SubSeq(SaveOrder, 1, Len(sv[p].done))
        /\ sv[p].failed # 0 =>
              /\ sv[p].done = SubSeq(SaveOrder, 1, sv[p].failed - 1)
              /\ pc[p] \notin SavePcs
        /\ pc[p] \in {"s5", "s5_rm", "s5_mk", "s5_wr"} =>
              (sv[p].done = SubSeq(SaveOrder, 1, 4) /\ sv[p].failed = 0)
        /\ Returned(p, "update") \/ Returned(p, "new") =>
              /\ call[p].result = "ok" <=> sv[p].done = SaveOrder
              /\ call[p].result = "error" <=> sv[p].failed # 0

\* step 3 of a save failed after steps 1 and 2 took effect
C9_Witness ==
    \E p \in Procs :
        /\ pc[p] = "s_ret"
        /\ sv[p].failed = 3
        /\ sv[p].done = <<1, 2>>
        /\ img[p].manDesc.digest \in blobs

\* C10: load takes the first manifest-typed entry of index.json in list order,
\* with the ref name of its annotation, and fails without an Image when the
\* list is empty or has no manifest-typed entry.
C10_LoadTakesFirstManifest ==
    [][\A p \in Procs :
          (impl = "index" /\ index.exists /\ pc[p] = "ld_pointer" /\ pc'[p] # "ld_pointer") =>
              LET ms == index.manifests
                  typed == {k \in 1..Len(ms) : ms[k].mediaType = MediaTypeImageManifest} IN
              IF typed = {}
              THEN /\ pc'[p] = "exit"
                   /\ err'[p] = "no manifests found in image"
                   /\ img'[p] = img[p]
              ELSE \E k \in typed :
                      /\ \A j \in 1..(k - 1) : j \notin typed
                      /\ pc'[p] = "ld_manifest"
                      /\ img'[p].manDesc = ms[k]
                      /\ img'[p].refName = ms[k].ref]_vars

\* a load went past an entry that is not manifest-typed and took the second
C10_Witness ==
    \E p \in Procs :
        /\ pc[p] = "ld_manifest"
        /\ index.exists
        /\ Len(index.manifests) = 2
        /\ index.manifests[1].mediaType # MediaTypeImageManifest
        /\ img[p].manDesc = index.manifests[2]
        /\ img[p].refName = "latest"

\* the directory holds a pointer in one of the two layouts
PointerPresent ==
    \/ index.exists /\ FirstManifest(index.manifests) # 0
    \/ refs.exists /\ Len(refs.files) > 0

\* index.json names the manifest blob of Image i
PointerInIndex(i) ==
    /\ index.exists
    /\ FirstManifest(index.manifests) # 0
    /\ index.manifests[FirstManifest(index.manifests)].digest = i.manDesc.digest

\* C11: load resolves the pointer of a directory in the legacy refs/<name>
\* layout as well as of one in the index.json layout, and every successful
\* save leaves the pointer in index.json.
C11_BothLayoutsReadIndexWritten ==
    [][/\ \A p \in Procs :
             (pc[p] = "ld_pointer" /\ pc'[p] # "ld_pointer" /\ PointerPresent) =>
                 pc'[p] = "ld_manifest"
       /\ \A p \in Procs : SaveSucceeded(p) => PointerInIndex(img[p])]_vars

(* ------------------------- layer lifecycle claims --------------------- *)
\* the RehashTopLayer call of p that is running or returned last
LastRehash(p) == rh[p][Len(rh[p])]
\* call record c has done e
Has(c, e) == \E k \in 1..Len(c.work) : c.work[k] = e
\* call record c began in state Clean / Dirty / on an image without a layer
BeganClean(c) == c.top # EmptyDigest /\ c.top \notin c.marked
BeganDirty(c) == c.top # EmptyDigest /\ c.top \in c.marked
BeganEmpty(c) == c.top = EmptyDigest
\* the work of a rehash in its order
RehashOrder == <<"collect", "update", "unmark">>

\* C12: in layered mode a RehashTopLayer call that finds a committed top layer
\* and no dirty marker for it returns nil at once: it collects nothing, calls
\* neither the blob writer nor UpdateTopLayer nor save, and leaves the Image,
\* the pointer, the blobs and the markers as they were.
C12_CleanRehashIsNoOp ==
    [][\A p \in Procs :
          (/\ pc[p] = "rh_check" /\ pc'[p] # "rh_check"
           /\ mode = BuildModeOCI
           /\ GetTopLayerDigest(img[p]) # EmptyDigest
           /\ GetTopLayerDigest(img[p]) \notin markers) =>
              /\ pc'[p] = "rh_ret"
              /\ err'[p] = "nil"
              /\ rh'[p][Len(rh'[p])].work = <<>>
              /\ img'[p] = img[p]
              /\ call'[p] = call[p]
              /\ sv'[p] = sv[p]
              /\ UNCHANGED <<blobs, index, refs, markers, tree, scratch>>]_vars

\* a rehash of a Clean two-layer image has returned nil without any work
C12_Witness ==
    \E p \in Procs :
        /\ pc[p] = "unlock"
        /\ op[p] = "rehash"
        /\ Len(rh[p]) = 1
        /\ BeganClean(rh[p][1])
        /\ Len(img[p].manifest.layers) = 2
        /\ rh[p][1].ret = "nil"
        /\ rh[p][1].work = <<>>

\* a dirty marker for the digest call a committed (the top layer call b finds)
\* was there before a began, left over under another layer's name
LeftOverMarker(a, b) == b.top \in a.marked /\ b.top # a.top

C14_DirtyRehashInOrder ==
    \A p \in Procs :
        (Len(rh[p]) > 0 /\ mode = BuildModeOCI /\ BeganDirty(LastRehash(p))) =>
            LET c == LastRehash(p) IN
            /\ \E n \in 0..Len(RehashOrder) : c.work = SubSeq(RehashOrder, 1, n)
            /\ (phase[p] = "rehash" /\ Has(c, "update")) =>
                  /\ call[p].kind = "update"
                  /\ call[p].layerDigest = LayerDigest(tree)
                  /\ call[p].diffId = DiffID(tree)
                  /\ call[p].size = LayerSize(tree)
            /\ (phase[p] = "rehash" /\ Has(c, "unmark")) =>
                  (call[p].kind = "update" /\ call[p].result = "ok")
            /\ c.top \notin markers => Has(c, "unmark")
            /\ c.ret = "nil" =>
                  /\ c.work = RehashOrder
                  /\ c.top \notin markers
                  /\ markers = c.marked \ {c.top}

\* a Dirty top layer was rehashed to a new digest and the call returned nil
C14_Witness ==
    \E p \in Procs :
        /\ pc[p] = "unlock"
        /\ op[p] = "rehash"
        /\ Len(rh[p]) = 1
        /\ BeganDirty(rh[p][1])
        /\ rh[p][1].ret = "nil"
        /\ rh[p][1].work = RehashOrder
        /\ call[p].old # call[p].layerDigest
        /\ GetTopLayerDigest(img[p]) = call[p].layerDigest
        /\ GetTopLayerDigest(img[p]) \notin markers

\* C15: when the build is not in OCI mode, no step of a RehashTopLayer or
\* NewLayer build step changes the blobs, the pointer, the dirty markers, the
\* working tree or the scratch directory, nor the manifest and config the
\* step holds; the mode check sends the call straight to its return with an
\* error, and the step ends with an error.
C15_WrongModeFailsWithoutEffect ==
    [][\A p \in Procs :
          (mode # BuildModeOCI /\ op[p] \in {"rehash", "newlayer"}) =>
              /\ UNCHANGED <<blobs, index, refs, markers, tree, scratch>>
              /\ pc[p] # "exit" => img'[p] = img[p]
              /\ pc[p] = "rh_check" =>
                    (pc'[p] = "rh_ret" /\ err'[p] = "only OCIs need to rehash the top layer")
              /\ pc[p] = "nl_mode" =>
                    /\ pc'[p] = "unlock"
                    /\ err'[p] = "adding layers is currently only supported in OCI builds"
              /\ pc'[p] = "exit" => err'[p] # "nil"]_vars

\* a NewLayer build step outside OCI mode has failed at its mode check
C15_Witness ==
    \E p \in Procs :
        /\ mode # BuildModeOCI
        /\ op[p] = "newlayer"
        /\ pc[p] = "exit"
        /\ err[p] = "adding layers is currently only supported in OCI builds"
        /\ Len(rh[p]) = 0

\* C18: a RehashTopLayer call in OCI mode that finds no dirty marker for its
\* top layer, or finds no top layer at all, returns no error (no I/O
\* operation having failed).
C18_NothingToDoReturnsNil ==
    \A p \in Procs :
        (Len(rh[p]) > 0 /\ mode = BuildModeOCI /\ faults = 0) =>
            LET c == LastRehash(p) IN
            (c.ret # "running" /\ c.top \notin c.marked) => c.ret = "nil"

\* C19: a NewLayer build step in OCI mode has called RehashTopLayer exactly
\* once, and that call has returned, before it sets up the scratch directory;
\* it goes on to the scratch directory with no error whatever the rehash
\* returned; and the error NewLayer ends with is that of its own part only:
\* nil exactly when NewTopLayer was called and returned ok, the mkdir error
\* when the scratch directory could not be set up.
C19_NewLayerDropsRehashError ==
    \A p \in Procs :
        (op[p] = "newlayer" /\ mode = BuildModeOCI) =>
            /\ (pc[p] = "nl_scratch" \/ phase[p] = "new") =>
                  (Len(rh[p]) = 1 /\ rh[p][1].ret # "running")
            /\ pc[p] = "nl_scratch" => err[p] = "nil"
            /\ pc[p] \in {"unlock", "exit"} =>
                  /\ Len(rh[p]) = 1
                  /\ phase[p] # "new" => err[p] = "mkdir new-layer"
                  /\ phase[p] = "new" =>
                        (err[p] = "nil" <=> (call[p].kind = "new" /\ call[p].result = "ok"))

\* the rehash inside NewLayer failed, and NewLayer still registered the new
\* top layer and ended without an error
C19_Witness ==
    \E p \in Procs :
        /\ op[p] = "newlayer"
        /\ mode = BuildModeOCI
        /\ pc[p] = "unlock"
        /\ Len(rh[p]) = 1
        /\ rh[p][1].ret \notin {"nil", "running"}
        /\ call[p].kind = "new"
        /\ call[p].result = "ok"
        /\ err[p] = "nil"

\* C20: once the scratch setup of NewLayer has succeeded, the scratch
\* directory of the new layer exists and is empty.
C20_ScratchIsFresh ==
    \A p \in Procs :
        (pc[p] = "store" /\ phase[p] = "new") => scratch = EmptyTree

\* C16: when OCIExtractLayers returns without an error, every digest of its
\* list has a destination directory.
C16_EveryDigestHasDestination ==
    (ext.pc = "ret" /\ ext.err = "nil") =>
        \A k \in 1..Len(ext.layerIDs) : blobsDest[ext.layerIDs[k]] # "none"

\* C17: OCIExtractLayers unpacks only into a destination directory that did
\* not exist when the loop reached its digest, and a call with the same list
\* as the call before it unpacks no digest that call unpacked.
C17_NoUnpackIntoExisting ==
    \A k \in 1..Len(ext.unpacks) :
        /\ ext.unpacks[k].found = "none"
        /\ ext.again => ext.unpacks[k].id \notin ext.before

\* the second of two calls with the same list found the directory the first
\* one had unpacked and returned without unpacking anything
C17_Witness ==
    /\ ext.pc = "ret"
    /\ ext.again
    /\ ext.before # {}
    /\ ext.layerIDs[ext.i] \in ext.before
    /\ ext.found = "full"
    /\ ext.unpacks = <<>>
    /\ ext.err = "nil"

\* C21: when a load succeeds, the pointer digest, manifest and config it
\* returns are together those of one state the directory has held: the
\* state at the start or the state after one of the saves, never the pointer
\* of one with the manifest or config of another.
C21_LoadNeverMixed ==
    [][\A p \in Procs :
          (pc[p] = "ld_config" /\ pc'[p] = "lock") => Triple(img'[p]) \in committed]_vars

\* a load has read the pointer and the manifest of the state before a save,
\* the save has since removed and rewritten blobs, and the config the load
\* is about to read is there
C21_Witness ==
    \E p \in Procs : \E q \in Procs \ {p} :
        /\ pc[p] = "ld_config"
        /\ pc[q] \in SavePcs
        /\ sv[q].done # <<>>
        /\ sv[q].failed = 0
        /\ img[p].manDesc.digest = call[q].pre.manDesc.digest
        /\ img[p].manifest = call[q].pre.manifest
        /\ img[p].manifest.config.digest \in blobs

\* C22: when a save of the index.json layout has succeeded, index.json holds
\* exactly one descriptor: manifest-typed, with the digest and size of the
\* manifest blob the save wrote, and annotated with the ref name of the
\* Image (no annotation when the name is empty).
C22_IndexHoldsOneDescriptor ==
    \A p \in Procs :
        (impl = "index" /\ SaveSucceeded(p)) =>
            /\ index.exists
            /\ Len(index.manifests) = 1
            /\ index.manifests[1].mediaType = MediaTypeImageManifest
            /\ index.manifests[1].digest = img[p].manDesc.digest
            /\ index.manifests[1].digest =
                  NewDigestFromHex("sha256", MarshalManifest(img[p].manifest))
            /\ index.manifests[1].digest \in blobs
            /\ index.manifests[1].size = img[p].manDesc.size
            /\ index.manifests[1].ref = img[p].refName

\* a save has replaced the manifest and left its one descriptor, annotated
\* with the ref name the Image was loaded with
C22_Witness ==
    \E p \in Procs :
        /\ impl = "index"
        /\ SaveSucceeded(p)
        /\ img[p].refName # ""
        /\ call[p].pre.manDesc.digest # img[p].manDesc.digest
        /\ index.manifests = <<[mediaType |-> MediaTypeImageManifest,
                                digest |-> img[p].manDesc.digest,
                                size |-> img[p].manDesc.size,
                                ref |-> img[p].refName, platform |-> "runtime"]>>

\* C23: once OCIExtractLayers has returned, a destination directory exists
\* only for a digest whose unpack completed; and a call that meets the
\* directory of an unpack that did not complete unpacks that layer again.
C23_DestinationOnlyWhenUnpacked ==
    [][/\ ext'.pc = "idle" => \A d \in LayerIDs : blobsDest'[d] \in {"none", "full"}
       /\ (/\ ext.pc = "loop"
           /\ ext.i <= Len(ext.layerIDs)
           /\ blobsDest[ext.layerIDs[ext.i]] = "partial") => ext'.pc = "mkdir"]_vars

====
